---- MODULE Spec2Model ----
(***************************************************************************)
(* OSS-Sensor: the demo pipeline (Makefile, setup.sh), the backend store   *)
(* the CLI writes to, and the two React views (QueueView, DiffDetailView)  *)
(* with the api.ts client they call.                                       *)
(***************************************************************************)
EXTENDS Integers, Sequences, FiniteSets, TLC

VARIABLES
    db,          \* backend store: artifacts, diffs (evidence bundle, score, triage), reports
    mkGoal,      \* goal given to make: "demo" or "quickstart"
    mkTarget,    \* index into Plan(mkGoal) of the target being built
    mkLine,      \* index of the next recipe line of that target
    mkChild,     \* the recipe line's command that is running, or NoCmd
    mkStatus,    \* "running", "done" or "failed"
    mkStarted,   \* history: commands make has started, in order
    mkExited,    \* history: exit statuses of the commands that have exited, in order
    env,         \* the machine setup.sh runs on: tools on PATH, their versions, .venv
    suArgs,      \* "$@" of setup.sh
    RUN_DEMO,    \* setup.sh line 9
    PY_VER,      \* setup.sh line 21
    suPc,        \* position in setup.sh
    suLine,      \* index of the next command of the demo section
    suChild,     \* the command setup.sh is waiting for, or NoCmd
    suExit,      \* exit status of setup.sh, NotExited while it runs
    suOut,       \* history: markers of the lines setup.sh has echoed
    suStarted,   \* history: commands setup.sh has started, in order
    suExited,    \* history: exit statuses of the commands that have exited, in order
    strictMode,  \* React.StrictMode double-invokes effects on mount (development build)
    qMounted,    \* QueueView is mounted
    items,       \* QueueView state
    qLoading,    \* QueueView state `loading`
    qError,      \* QueueView state `error`: None (null) or Some(message)
    filterComponent,
    filterState,
    filterMinScore,   \* the text of the number input, a tuple of characters
    qInflight,   \* GET /queue requests not yet answered, in the order issued
    qFetches,    \* history: number of GET /queue requests issued
    dMounted,    \* DiffDetailView is mounted
    dMounts,     \* history: number of times it was mounted (the instance number)
    diffId,      \* the route's :diffId
    diff,        \* DiffDetailView state: None (null) or Some(DiffDetail)
    reports,     \* DiffDetailView state: None (null) or Some(Reports)
    dLoading,    \* DiffDetailView state `loading`
    dError,      \* DiffDetailView state `error`
    triageState,
    triageNotes,
    saving,
    dInflight,   \* runs of the load effect whose Promise.all has not settled
    tInflight,   \* POST /diff/{id}/triage requests not yet answered
    dLoads,      \* history: number of runs of the load effect
    tPosts       \* history: number of triage requests sent

mkVars == <<mkGoal, mkTarget, mkLine, mkChild, mkStatus, mkStarted, mkExited>>
suVars == <<env, suArgs, RUN_DEMO, PY_VER, suPc, suLine, suChild, suExit, suOut,
            suStarted, suExited>>
qVars == <<qMounted, items, qLoading, qError, filterComponent, filterState,
           filterMinScore, qInflight, qFetches>>
dVars == <<dMounted, dMounts, diffId, diff, reports, dLoading, dError, triageState,
           triageNotes, saving, dInflight, tInflight, dLoads, tPosts>>
vars == <<db, mkVars, suVars, strictMode, qVars, dVars>>

----------------------------------------------------------------------------
(* Bounds *)

MaxStatus == 2        \* exit statuses are 0..MaxStatus
MaxArgs == 2          \* setup.sh is given at most MaxArgs arguments

Statuses == 0..MaxStatus

NoCmd == [cwd |-> "", argv |-> <<>>]
\* the value of suExit while the script runs: no exit status
NotExited == MaxStatus + 1

----------------------------------------------------------------------------
(* Commands.  A command is the directory it runs in (relative to the repo   *)
(* root, where make is run and where setup.sh cds to) and its argv.         *)

Cmd(cwd, argv) == [cwd |-> cwd, argv |-> argv]

\* argv after the interpreter and "-m oss_sensor.cli": the CLI's own arguments
CliArgs(c) == SubSeq(c.argv, 4, Len(c.argv))

IsCli(c) == Len(c.argv) >= 4 /\ c.argv[2] = "-m" /\ c.argv[3] = "oss_sensor.cli"

DEMO_FIXTURES == "../demo/fixtures"

demo == <<
    Cmd("backend", <<"python3", "-m", "oss_sensor.cli", "ingest-source", "--build-id", "B1",
                     "--component", "xnu", DEMO_FIXTURES \o "/source_b1">>),
    Cmd("backend", <<"python3", "-m", "oss_sensor.cli", "ingest-source", "--build-id", "B2",
                     "--component", "xnu", DEMO_FIXTURES \o "/source_b2">>),
    Cmd("backend", <<"python3", "-m", "oss_sensor.cli", "ingest-binary", "--build-id", "B1",
                     "--component", "syslogd", DEMO_FIXTURES \o "/binary_b1">>),
    Cmd("backend", <<"python3", "-m", "oss_sensor.cli", "ingest-binary", "--build-id", "B2",
                     "--component", "syslogd", DEMO_FIXTURES \o "/binary_b2">>),
    Cmd("backend", <<"python3", "-m", "oss_sensor.cli", "ingest-logs", "--build-id", "B1",
                     DEMO_FIXTURES \o "/logs_b1">>),
    Cmd("backend", <<"python3", "-m", "oss_sensor.cli", "ingest-logs", "--build-id", "B2",
                     DEMO_FIXTURES \o "/logs_b2">>),
    Cmd("backend", <<"python3", "-m", "oss_sensor.cli", "diff", "--from", "B1", "--to", "B2",
                     "--component", "syslogd">>),
    Cmd("backend", <<"python3", "-m", "oss_sensor.cli", "score", "--diff-id", "1">>),
    Cmd("backend", <<"python3", "-m", "oss_sensor.cli", "report", "--diff-id", "1">>),
    Cmd("", <<"echo", "Demo complete.">>) >>

serve_api == << Cmd("backend", <<"uvicorn", "oss_sensor.main:app", "--reload",
                                 "--host", "0.0.0.0", "--port", "8000">>) >>

serve_frontend == << Cmd("frontend", <<"npm", "run", "dev">>) >>

quickstart == << >>

Recipe(t) ==
    CASE t = "demo" -> demo
      [] t = "serve-api" -> serve_api
      [] t = "serve-frontend" -> serve_frontend
      [] t = "quickstart" -> quickstart

Prerequisites(t) ==
    IF t = "quickstart" THEN <<"demo", "serve-api", "serve-frontend">> ELSE << >>

\* make builds a goal's prerequisites left to right, one at a time, then the goal
Plan(goal) == Prerequisites(goal) \o <<goal>>

\* the demo section with the diff run for another component than make's
SetupDemoOtherComponent == [i \in 1..9 |->
    IF i = 7
    THEN Cmd("backend", <<"../.venv/bin/python", "-m", "oss_sensor.cli", "diff",
                          "--from", "B1", "--to", "B2", "--component", "xnu">>)
    ELSE Cmd("backend", <<"../.venv/bin/python", "-m", "oss_sensor.cli">> \o SubSeq(demo[i].argv, 4, Len(demo[i].argv)))]

SetupDemo == <<
    Cmd("backend", <<"../.venv/bin/python", "-m", "oss_sensor.cli", "ingest-source",
                     "--build-id", "B1", "--component", "xnu", "../demo/fixtures/source_b1">>),
    Cmd("backend", <<"../.venv/bin/python", "-m", "oss_sensor.cli", "ingest-source",
                     "--build-id", "B2", "--component", "xnu", "../demo/fixtures/source_b2">>),
    Cmd("backend", <<"../.venv/bin/python", "-m", "oss_sensor.cli", "ingest-binary",
                     "--build-id", "B1", "--component", "syslogd", "../demo/fixtures/binary_b1">>),
    Cmd("backend", <<"../.venv/bin/python", "-m", "oss_sensor.cli", "ingest-binary",
                     "--build-id", "B2", "--component", "syslogd", "../demo/fixtures/binary_b2">>),
    Cmd("backend", <<"../.venv/bin/python", "-m", "oss_sensor.cli", "ingest-logs",
                     "--build-id", "B1", "../demo/fixtures/logs_b1">>),
    Cmd("backend", <<"../.venv/bin/python", "-m", "oss_sensor.cli", "ingest-logs",
                     "--build-id", "B2", "../demo/fixtures/logs_b2">>),
    Cmd("backend", <<"../.venv/bin/python", "-m", "oss_sensor.cli", "diff",
                     "--from", "B1", "--to", "B2", "--component", "syslogd">>),
    Cmd("backend", <<"../.venv/bin/python", "-m", "oss_sensor.cli", "score", "--diff-id", "1">>),
    Cmd("backend", <<"../.venv/bin/python", "-m", "oss_sensor.cli", "report", "--diff-id", "1">>) >>

----------------------------------------------------------------------------
(* The backend store and the CLI's effect on it.  The Python backend        *)
(* (oss_sensor) is modelled from the architecture notes, the README and the *)
(* specification's data model.                                              *)

EmptyDb == [artifacts |-> {}, diffs |-> << >>, reports |-> {}]

\* the value that follows option opt in args, "" when the option is absent
OptVal(args, opt) ==
    IF \E i \in 1..(Len(args) - 1) : args[i] = opt
    THEN args[(CHOOSE i \in 1..(Len(args) - 1) : args[i] = opt) + 1]
    ELSE ""

\* diff ids are the decimal rendering of the diff's position in the store
DiffIds == <<"1", "2">>
DiffIndex(id) == IF \E i \in 1..Len(DiffIds) : DiffIds[i] = id
                 THEN CHOOSE i \in 1..Len(DiffIds) : DiffIds[i] = id
                 ELSE 0

KindOf(sub) ==
    CASE sub = "ingest-source" -> "source"
      [] sub = "ingest-binary" -> "binary"
      [] sub = "ingest-logs" -> "log"

\* An artifact is stored per (build_id, component, kind)
Ingest(d, args) ==
    LET a == [build_id |-> OptVal(args, "--build-id"),
              component |-> OptVal(args, "--component"),
              kind |-> KindOf(args[1]),
              path |-> args[Len(args)]]
        same(b) == b.build_id = a.build_id /\ b.component = a.component /\ b.kind = a.kind
    IN [d EXCEPT !.artifacts = {b \in d.artifacts : ~same(b)} \cup {a}]

\* The demo fixtures, by what the architecture notes say of them
FixtureName(path) ==
    CASE path = "../demo/fixtures/source_b1" -> "source_b1"
      [] path = "../demo/fixtures/source_b2" -> "source_b2"
      [] path = "../demo/fixtures/binary_b1" -> "binary_b1"
      [] path = "../demo/fixtures/binary_b2" -> "binary_b2"
      [] path = "../demo/fixtures/logs_b1" -> "logs_b1"
      [] path = "../demo/fixtures/logs_b2" -> "logs_b2"
      [] OTHER -> "unknown"

\* SourceDiffAnalyzer: hunks between two ingested trees; B2 adds the bounds check
SourceDiffAnalyzer(from, to) ==
    IF from = {} \/ to = {} THEN [hunks |-> {}, features |-> {}]
    ELSE IF \E a \in from, b \in to : FixtureName(a.path) = "source_b1"
                                        /\ FixtureName(b.path) = "source_b2"
    THEN [hunks |-> {"parser.c:12"},
          features |-> {[kind |-> "alloc_math", hunk_id |-> "parser.c:12"],
                        [kind |-> "bounds_check", hunk_id |-> "parser.c:12"]}]
    ELSE [hunks |-> {}, features |-> {}]

\* BinaryFeatureExtractor: the strings and symbols of the fake Mach-Os
BinaryFeatureExtractor(arts) ==
    IF \E a \in arts : FixtureName(a.path) = "binary_b2"
    THEN [strings |-> {"syslogd", "parse_buffer: bad count"}, symbols |-> {"_main", "_parse_buffer"}]
    ELSE IF \E a \in arts : FixtureName(a.path) = "binary_b1"
    THEN [strings |-> {"syslogd"}, symbols |-> {"_main", "_parse_entries"}]
    ELSE [strings |-> {}, symbols |-> {}]

\* BinaryDiffMatcher: pairs by exact name; a one-sided name stays unmatched
BinaryDiffMatcher(f, t) ==
    {[symbol_from |-> s, symbol_to |-> s, basis |-> "name"] : s \in f.symbols \cap t.symbols}
    \cup {[symbol_from |-> s, symbol_to |-> "", basis |-> "none"] : s \in f.symbols \ t.symbols}
    \cup {[symbol_from |-> "", symbol_to |-> s, basis |-> "none"] : s \in t.symbols \ f.symbols}

\* LogTemplateExtractor: template id and literal of every message shape
LogTemplateExtractor(arts) ==
    (IF \E a \in arts : FixtureName(a.path) = "logs_b1"
     THEN {[template_id |-> "tmpl:start", format_string |-> "syslogd"]} ELSE {})
    \cup
    (IF \E a \in arts : FixtureName(a.path) = "logs_b2"
     THEN {[template_id |-> "tmpl:start", format_string |-> "syslogd"],
           [template_id |-> "tmpl:badcount", format_string |-> "parse_buffer: bad count"]}
     ELSE {})

\* LogBinaryCorrelator: templates whose literal is in the binary's string table
LogBinaryCorrelator(templates, f) ==
    {<<t.template_id, t.format_string>> : t \in {u \in templates : u.format_string \in f.strings}}

Arts(d, build, component, kind) ==
    {a \in d.artifacts : a.build_id = build /\ a.kind = kind
                         /\ (kind = "log" \/ a.component = component)}

\* EvidenceBundleAssembler: the diff uses what was ingested for its component
\* and its two build ids
EvidenceBundleAssembler(d, from, to, component) ==
    LET src == SourceDiffAnalyzer(Arts(d, from, component, "source"),
                                  Arts(d, to, component, "source"))
        bf == BinaryFeatureExtractor(Arts(d, from, component, "binary"))
        bt == BinaryFeatureExtractor(Arts(d, to, component, "binary"))
        tm == LogTemplateExtractor(Arts(d, from, component, "log")
                                   \cup Arts(d, to, component, "log"))
    IN [diff_hunks |-> src.hunks,
        source_features |-> src.features,
        binary_features_from |-> bf,
        binary_features_to |-> bt,
        binary_diff_pairs |-> BinaryDiffMatcher(bf, bt),
        log_templates |-> tm,
        log_to_binary_matches |-> LogBinaryCorrelator(tm, bt)]

\* every stable id an EvidenceRef may resolve to in a bundle
BundleIds(b) ==
    b.diff_hunks
    \cup b.binary_features_from.strings \cup b.binary_features_from.symbols
    \cup b.binary_features_to.strings \cup b.binary_features_to.symbols
    \cup {t.template_id : t \in b.log_templates}

Ref(type, id) == [ref_type |-> type, artifact_id |-> "", stable_id |-> id]

\* a scoring engine whose unmatched-symbol rule emits its reason whether or not
\* any pair is unmatched
ScoringEngineRuleAlwaysFires(b, id) ==
    LET alloc == {f \in b.source_features : f.kind = "alloc_math"}
        r1 == IF alloc # {}
              THEN << [reason |-> "allocation sizing changed", score_contribution |-> 5,
                       evidence_refs |-> {Ref("hunk", f.hunk_id) : f \in alloc}] >>
              ELSE << >>
        r2 == IF b.log_to_binary_matches # {}
              THEN << [reason |-> "log template matches binary string", score_contribution |-> 3,
                       evidence_refs |-> {Ref("log_template", m[1]) : m \in b.log_to_binary_matches}
                                         \cup {Ref("string", m[2]) : m \in b.log_to_binary_matches}] >>
              ELSE << >>
        un == {p \in b.binary_diff_pairs : p.basis = "none"}
        r3 == << [reason |-> "unmatched symbol across builds", score_contribution |-> 1,
                  evidence_refs |-> {Ref("symbol", IF p.symbol_from # "" THEN p.symbol_from
                                                   ELSE p.symbol_to) : p \in un}] >>
        rs == r1 \o r2 \o r3
        Sum[i \in 0..Len(rs)] == IF i = 0 THEN 0 ELSE Sum[i - 1] + rs[i].score_contribution
    IN [total_score |-> Sum[Len(rs)], reasons |-> rs, diff_id |-> id]

\* ScoringEngine: one reason per matched rule, in rule-declaration order
ScoringEngine(b, id) ==
    LET alloc == {f \in b.source_features : f.kind = "alloc_math"}
        r1 == IF alloc # {}
              THEN << [reason |-> "allocation sizing changed", score_contribution |-> 5,
                       evidence_refs |-> {Ref("hunk", f.hunk_id) : f \in alloc}] >>
              ELSE << >>
        r2 == IF b.log_to_binary_matches # {}
              THEN << [reason |-> "log template matches binary string", score_contribution |-> 3,
                       evidence_refs |-> {Ref("log_template", m[1]) : m \in b.log_to_binary_matches}
                                         \cup {Ref("string", m[2]) : m \in b.log_to_binary_matches}] >>
              ELSE << >>
        un == {p \in b.binary_diff_pairs : p.basis = "none"}
        r3 == IF un # {}
              THEN << [reason |-> "unmatched symbol across builds", score_contribution |-> 1,
                       evidence_refs |-> {Ref("symbol", IF p.symbol_from # "" THEN p.symbol_from
                                                        ELSE p.symbol_to) : p \in un}] >>
              ELSE << >>
        rs == r1 \o r2 \o r3
        Sum[i \in 0..Len(rs)] == IF i = 0 THEN 0 ELSE Sum[i - 1] + rs[i].score_contribution
    IN [total_score |-> Sum[Len(rs)], reasons |-> rs, diff_id |-> id]

NoScore == [total_score |-> 0, reasons |-> << >>, diff_id |-> ""]

\* diff: persists an evidence bundle and creates the diff record
DiffRun(d, args) ==
    LET from == OptVal(args, "--from")
        to == OptVal(args, "--to")
        component == OptVal(args, "--component")
    IN [d EXCEPT !.diffs = Append(@, [id |-> DiffIds[Len(@) + 1],
                                      build_from |-> from, build_to |-> to,
                                      component |-> component,
                                      evidence_bundle |-> EvidenceBundleAssembler(d, from, to, component),
                                      score_result |-> NoScore,
                                      state |-> "pending", notes |-> ""])]

ScoreRun(d, args) ==
    LET i == DiffIndex(OptVal(args, "--diff-id"))
    IN [d EXCEPT !.diffs[i].score_result = ScoringEngine(d.diffs[i].evidence_bundle, d.diffs[i].id)]

ReportRun(d, args) == [d EXCEPT !.reports = @ \cup {OptVal(args, "--diff-id")}]

\* whether the CLI command can end with status 0 on store d
CliCanSucceed(d, args) ==
    CASE args[1] \in {"score", "report"} ->
            DiffIndex(OptVal(args, "--diff-id")) \in 1..Len(d.diffs)
      [] args[1] = "diff" -> Len(d.diffs) < Len(DiffIds)
      [] OTHER -> TRUE

\* the store after the CLI command ended with status 0
CliEffect(d, args) ==
    CASE args[1] \in {"ingest-source", "ingest-binary", "ingest-logs"} -> Ingest(d, args)
      [] args[1] = "diff" -> DiffRun(d, args)
      [] args[1] = "score" -> ScoreRun(d, args)
      [] args[1] = "report" -> ReportRun(d, args)

\* the store after command c exited with status st
AfterExit(d, c, st) == IF st = 0 /\ IsCli(c) THEN CliEffect(d, CliArgs(c)) ELSE d

\* statuses command c can exit with on store d
ExitStatuses(d, c) ==
    IF IsCli(c) /\ ~CliCanSucceed(d, CliArgs(c)) THEN Statuses \ {0} ELSE Statuses

----------------------------------------------------------------------------
(* make <goal>, run in the repository root without -j, -k or -i             *)

MakeTarget == Plan(mkGoal)[mkTarget]

\* uvicorn and the vite dev server serve until they are stopped
IsServer(c) == c \in {serve_api[1], serve_frontend[1]}

\* make starts the next line of the recipe
MakeStart ==
    /\ mkStatus = "running"
    /\ mkChild = NoCmd
    /\ mkLine <= Len(Recipe(MakeTarget))
    /\ mkChild' = Recipe(MakeTarget)[mkLine]
    /\ mkStarted' = Append(mkStarted, Recipe(MakeTarget)[mkLine])
    /\ UNCHANGED <<db, mkGoal, mkTarget, mkLine, mkStatus, mkExited>>
    /\ UNCHANGED <<suVars, strictMode, qVars, dVars>>

\* a make that goes on after a failed line (as with -i, or a "-" before the line)
MakeAfterExitIgnoringErrors(st) ==
    /\ mkExited' = Append(mkExited, st)
    /\ db' = AfterExit(db, mkChild, st)
    /\ mkChild' = NoCmd
    /\ mkLine' = mkLine + 1 /\ mkStatus' = mkStatus
    /\ UNCHANGED <<mkGoal, mkTarget, mkStarted>>
    /\ UNCHANGED <<suVars, strictMode, qVars, dVars>>

\* the line's command exited with status st: make goes on to the next line on
\* status 0 and stops with an error otherwise
MakeAfterExit(st) ==
    /\ mkExited' = Append(mkExited, st)
    /\ db' = AfterExit(db, mkChild, st)
    /\ mkChild' = NoCmd
    /\ IF st = 0
       THEN mkLine' = mkLine + 1 /\ mkStatus' = mkStatus
       ELSE mkLine' = mkLine /\ mkStatus' = "failed"
    /\ UNCHANGED <<mkGoal, mkTarget, mkStarted>>
    /\ UNCHANGED <<suVars, strictMode, qVars, dVars>>

MakeExit(st) ==
    /\ mkChild # NoCmd
    /\ ~IsServer(mkChild)
    /\ st \in ExitStatuses(db, mkChild)
    /\ MakeAfterExit(st)

MakeServerExit(st) ==
    /\ mkChild # NoCmd
    /\ IsServer(mkChild)
    /\ MakeAfterExit(st)

\* the recipe is finished: the next target of the plan, or make is done
MakeNextTarget ==
    /\ mkStatus = "running"
    /\ mkChild = NoCmd
    /\ mkLine > Len(Recipe(MakeTarget))
    /\ IF mkTarget < Len(Plan(mkGoal))
       THEN mkTarget' = mkTarget + 1 /\ mkLine' = 1 /\ mkStatus' = mkStatus
       ELSE mkTarget' = mkTarget /\ mkLine' = mkLine /\ mkStatus' = "done"
    /\ UNCHANGED <<db, mkGoal, mkChild, mkStarted, mkExited>>
    /\ UNCHANGED <<suVars, strictMode, qVars, dVars>>

apiRunning == mkChild = serve_api[1]
frontendRunning == mkChild = serve_frontend[1]

----------------------------------------------------------------------------
(* setup.sh [--demo], under set -e                                          *)

ArgLists == UNION {[1..n -> {"--demo", "--verbose"}] : n \in 0..MaxArgs}

Envs == [python3 : {"none", "3.9", "3.10"},         \* python3 on PATH, and its version
         npm : BOOLEAN,                            \* npm on PATH
         node : {"none", "v18"},                   \* node on PATH, and its version
         venv : BOOLEAN]                           \* the directory .venv exists

\* for arg in "$@"; do [ "$arg" = "--demo" ] && RUN_DEMO=true; done
RECURSIVE ParseArgs(_, _)
ParseArgs(args, run) ==
    IF args = << >> THEN run
    ELSE ParseArgs(Tail(args), IF Head(args) = "--demo" THEN TRUE ELSE run)

PyVerCmd == Cmd("", <<"python3", "-c", "print(version)">>)
VenvCmd == Cmd("", <<"python3", "-m", "venv", ".venv">>)
PipCmd == Cmd("", <<".venv/bin/pip", "install", "-q", "-e", "backend/.[dev]">>)
NpmInstallCmd == Cmd("frontend", <<"npm", "install", "--no-audit", "--no-fund">>)

SetupCmd(pc, line) ==
    CASE pc = "py_ver" -> PyVerCmd
      [] pc = "venv" -> VenvCmd
      [] pc = "pip" -> PipCmd
      [] pc = "npm_install" -> NpmInstallCmd
      [] pc = "demo" -> SetupDemo[line]

SetupArgs ==
    /\ suPc = "args"
    /\ RUN_DEMO' = ParseArgs(suArgs, FALSE)
    /\ suPc' = "check_python"
    /\ UNCHANGED <<db, mkVars, env, suArgs, PY_VER, suLine, suChild, suExit, suOut,
                   suStarted, suExited>>
    /\ UNCHANGED <<strictMode, qVars, dVars>>

\* if ! command -v python3; then echo ERROR; exit 1; fi
SetupCheckPython ==
    /\ suPc = "check_python"
    /\ IF env.python3 = "none"
       THEN suPc' = "exited" /\ suExit' = 1 /\ suOut' = suOut \cup {"ERROR: python3 not found"}
       ELSE suPc' = "py_ver" /\ suExit' = suExit /\ suOut' = suOut
    /\ UNCHANGED <<db, mkVars, env, suArgs, RUN_DEMO, PY_VER, suLine, suChild,
                   suStarted, suExited>>
    /\ UNCHANGED <<strictMode, qVars, dVars>>

\* if ! command -v npm; then echo ERROR; exit 1; fi; the echo of node's version
\* that follows goes on whether or not node runs
SetupCheckNpm ==
    /\ suPc = "check_npm"
    /\ IF ~env.npm
       THEN suPc' = "exited" /\ suExit' = 1 /\ suOut' = suOut \cup {"ERROR: npm not found"}
       ELSE suPc' = "venv" /\ suExit' = suExit /\ suOut' = suOut
    /\ UNCHANGED <<db, mkVars, env, suArgs, RUN_DEMO, PY_VER, suLine, suChild,
                   suStarted, suExited>>
    /\ UNCHANGED <<strictMode, qVars, dVars>>

\* if [ ! -d ".venv" ]: the venv is created only when the directory is missing
SetupVenvSkip ==
    /\ suPc = "venv"
    /\ suChild = NoCmd
    /\ env.venv
    /\ suPc' = "pip"
    /\ UNCHANGED <<db, mkVars, env, suArgs, RUN_DEMO, PY_VER, suLine, suChild, suExit,
                   suOut, suStarted, suExited>>
    /\ UNCHANGED <<strictMode, qVars, dVars>>

\* the script starts the command of its current statement
SetupStart ==
    /\ suPc \in {"py_ver", "venv", "pip", "npm_install", "demo"}
    /\ suChild = NoCmd
    /\ suPc = "venv" => ~env.venv
    /\ suChild' = SetupCmd(suPc, suLine)
    /\ suStarted' = Append(suStarted, SetupCmd(suPc, suLine))
    /\ UNCHANGED <<db, mkVars, env, suArgs, RUN_DEMO, PY_VER, suPc, suLine, suExit,
                   suOut, suExited>>
    /\ UNCHANGED <<strictMode, qVars, dVars>>

\* where the script goes after the command of statement pc ended with status 0
SetupAfter(pc, line, run_demo) ==
    CASE pc = "py_ver" -> [pc |-> "check_npm", line |-> line, out |-> {}]
      [] pc = "venv" -> [pc |-> "pip", line |-> line, out |-> {}]
      [] pc = "pip" -> [pc |-> "npm_install", line |-> line, out |-> {"Backend OK."}]
      [] pc = "npm_install" -> [pc |-> IF run_demo THEN "demo" ELSE "complete",
                                line |-> 1, out |-> {"Frontend OK."}]
      [] pc = "demo" -> IF line < Len(SetupDemo)
                        THEN [pc |-> "demo", line |-> line + 1, out |-> {}]
                        ELSE [pc |-> "complete", line |-> line, out |-> {"Demo OK"}]

\* the script without set -e: it goes on whatever the status
SetupExitWithoutErrexit(st) ==
    /\ suChild # NoCmd
    /\ st \in ExitStatuses(db, suChild)
    /\ suExited' = Append(suExited, st)
    /\ db' = AfterExit(db, suChild, st)
    /\ suChild' = NoCmd
    /\ suPc' = SetupAfter(suPc, suLine, RUN_DEMO).pc
    /\ suLine' = SetupAfter(suPc, suLine, RUN_DEMO).line
    /\ suOut' = suOut \cup SetupAfter(suPc, suLine, RUN_DEMO).out
    /\ PY_VER' = IF suPc = "py_ver" THEN env.python3 ELSE PY_VER
    /\ env' = IF suPc = "venv" THEN [env EXCEPT !.venv = TRUE] ELSE env
    /\ suExit' = suExit
    /\ UNCHANGED <<mkVars, suArgs, RUN_DEMO, suStarted>>
    /\ UNCHANGED <<strictMode, qVars, dVars>>

\* the command exited with status st; under set -e a status other than 0 ends
\* the script with that status
SetupExit(st) ==
    /\ suChild # NoCmd
    /\ st \in ExitStatuses(db, suChild)
    /\ suExited' = Append(suExited, st)
    /\ db' = AfterExit(db, suChild, st)
    /\ suChild' = NoCmd
    /\ IF st # 0
       THEN /\ suPc' = "exited" /\ suExit' = st
            /\ UNCHANGED <<suLine, suOut, PY_VER, env>>
       ELSE /\ suPc' = SetupAfter(suPc, suLine, RUN_DEMO).pc
            /\ suLine' = SetupAfter(suPc, suLine, RUN_DEMO).line
            /\ suOut' = suOut \cup SetupAfter(suPc, suLine, RUN_DEMO).out
            /\ PY_VER' = IF suPc = "py_ver" THEN env.python3 ELSE PY_VER
            /\ env' = IF suPc = "venv" THEN [env EXCEPT !.venv = TRUE] ELSE env
            /\ suExit' = suExit
    /\ UNCHANGED <<mkVars, suArgs, RUN_DEMO, suStarted>>
    /\ UNCHANGED <<strictMode, qVars, dVars>>

\* echo "=== Setup complete ===" and the script's end
SetupComplete ==
    /\ suPc = "complete"
    /\ suOut' = suOut \cup {"Setup complete"}
    /\ suPc' = "exited"
    /\ suExit' = 0
    /\ UNCHANGED <<db, mkVars, env, suArgs, RUN_DEMO, PY_VER, suLine, suChild,
                   suStarted, suExited>>
    /\ UNCHANGED <<strictMode, qVars, dVars>>

----------------------------------------------------------------------------
(* Values shared by the two views                                           *)

None == << >>
Some(x) == <<x>>

\* what a failed fetch carries as e.message: r.statusText, which is empty over
\* HTTP/2
ErrorMessages == {"", "Not Found"}

\* a falsy string in JavaScript is the empty string
Truthy(s) == s # ""

----------------------------------------------------------------------------
(* Numbers (binary64) and their text.  Texts are tuples of characters.      *)

DecimalDigits == <<"0", "1", "2", "3", "4", "5", "6", "7", "8", "9">>

Min(a, b) == IF a < b THEN a ELSE b

\* the text from its first character that is not white space.  StrWhiteSpaceChar
\* is WhiteSpace or LineTerminator: TAB, VT (U+000B), FF, SP, NBSP (U+00A0),
\* ZWNBSP (U+FEFF), the other space separators, LF, CR, LS and PS.  Of the space
\* separators U+1680 is here; a string of this module cannot hold U+2000 to
\* U+200A, U+2028, U+2029, U+202F, U+205F and U+3000.
TrimStart(t) ==
    LET StrWhiteSpaceChar == {"\t", "", "\f", " ", " ", "﻿", " ", "\n", "\r"}
    IN SubSeq(t, 1 + (CHOOSE n \in 0..Len(t) :
                         /\ \A j \in 1..n : t[j] \in StrWhiteSpaceChar
                         /\ n = Len(t) \/ t[n + 1] \notin StrWhiteSpaceChar),
              Len(t))

\* the longest prefix of t made of digits
TakeDigits(t) ==
    SubSeq(t, 1, CHOOSE n \in 0..Len(t) :
                     /\ \A j \in 1..n : \E k \in 1..10 : DecimalDigits[k] = t[j]
                     /\ n = Len(t) \/ \A k \in 1..10 : DecimalDigits[k] # t[n + 1])

\* the values of the digits of a text of digits
DigitValues(ds) == [i \in 1..Len(ds) |-> (CHOOSE k \in 1..10 : DecimalDigits[k] = ds[i]) - 1]

\* Naturals in decimal: tuples of the digits 0..9, most significant first.
Zeros(n) == [i \in 1..(IF n > 0 THEN n ELSE 0) |-> 0]

\* the position of the first digit that is not 0, Len(d) + 1 when there is none
FirstNonZero(d) ==
    IF \A i \in 1..Len(d) : d[i] = 0 THEN Len(d) + 1
    ELSE CHOOSE i \in 1..Len(d) : d[i] # 0 /\ \A j \in 1..(i - 1) : d[j] = 0

\* the position of the last digit that is not 0, 0 when there is none
LastNonZero(d) ==
    IF \A i \in 1..Len(d) : d[i] = 0 THEN 0
    ELSE CHOOSE i \in 1..Len(d) : d[i] # 0 /\ \A j \in (i + 1)..Len(d) : d[j] = 0

\* the value of the digits d on top of acc, or cap when that is cap or more
RECURSIVE IntOf(_, _, _)
IntOf(d, acc, cap) ==
    IF d = << >> \/ acc = cap THEN acc
    ELSE IF acc = 0 /\ Head(d) = 0 THEN IntOf(SubSeq(d, FirstNonZero(d), Len(d)), 0, cap)
    ELSE IntOf(Tail(d), Min(10 * acc + Head(d), cap), cap)

\* -1, 0 or 1 as a < b, a = b or a > b, for two naturals of as many digits
Cmp(a, b) ==
    LET At(i) == IF a[i] < b[i] THEN -1 ELSE 1
    IN IF a = b THEN 0
       ELSE At(CHOOSE i \in 1..Len(a) : a[i] # b[i] /\ \A j \in 1..(i - 1) : a[j] = b[j])

\* the same for two naturals of any number of digits
CmpNat(a, b) == Cmp(Zeros(Len(b) - Len(a)) \o a, Zeros(Len(a) - Len(b)) \o b)

\* 2 * d: the carry into a digit is 1 when the next lower digit is 5 or more
Double(d) ==
    (IF d[1] >= 5 THEN <<1>> ELSE << >>)
    \o [i \in 1..Len(d) |-> ((2 * d[i]) % 10) + (IF i < Len(d) /\ d[i + 1] >= 5 THEN 1 ELSE 0)]

\* d \div 2, in as many digits: a digit takes 5 from an odd next higher digit
Half(d) ==
    << >> \o [i \in 1..Len(d) |-> (d[i] \div 2) + (IF i > 1 /\ d[i - 1] % 2 = 1 THEN 5 ELSE 0)]

\* d + 1: the digits up to the last one that is not 9 take the carry
Inc(d) ==
    (IF \A i \in 1..Len(d) : d[i] = 9 THEN <<1>> ELSE << >>)
    \o [i \in 1..Len(d) |-> IF \A j \in (i + 1)..Len(d) : d[j] = 9 THEN (d[i] + 1) % 10 ELSE d[i]]

\* d - 1, for d > 0
Dec(d) ==
    << >> \o [i \in 1..Len(d) |-> IF \A j \in (i + 1)..Len(d) : d[j] = 0 THEN (d[i] + 9) % 10 ELSE d[i]]

\* d doubled k times, the first half of the doublings first
RECURSIVE TimesTwoTo(_, _)
TimesTwoTo(d, k) ==
    IF k = 0 \/ d = << >> THEN d
    ELSE IF k = 1 THEN Double(d)
    ELSE TimesTwoTo(TimesTwoTo(d, k \div 2), k - (k \div 2))

\* d halved k times, exactly: with k more digits after the point
RECURSIVE OverTwoTo(_, _)
OverTwoTo(d, k) ==
    IF k = 0 \/ d = << >> THEN d
    ELSE IF k = 1 THEN Half(d \o <<0>>)
    ELSE OverTwoTo(OverTwoTo(d, k \div 2), k - (k \div 2))

\* d * 2^e, with -e more digits after the point when e < 0
ScaleBy(d, e) == IF e >= 0 THEN TimesTwoTo(d, e) ELSE OverTwoTo(d, -e)

\* The binary64 format: a significand of 53 bits, m < 2^53, and an exponent b
\* from -1074 to 971; the value is m * 2^b, and m >= 2^52 unless b = -1074.
TwoTo52 == <<4, 5, 0, 3, 5, 9, 9, 6, 2, 7, 3, 7, 0, 4, 9, 6>>
TwoTo53 == <<9, 0, 0, 7, 1, 9, 9, 2, 5, 4, 7, 4, 0, 9, 9, 2>>

\* round to nearest, ties to even: whether a number with the fraction digits f
\* is rounded up, odd telling whether its integer part is odd
RoundsUp(f, odd) ==
    /\ f # << >> /\ f[1] >= 5
    /\ (odd \/ f[1] > 5 \/ \E i \in 2..Len(f) : f[i] # 0)

\* the integer part of d, which has q digits after the point, against c
CmpInt(d, q, c) == CmpNat(SubSeq(d, 1, Len(d) - q), c)

\* the largest power of two that is at most n, from 1 to 1024
StepFor(n) ==
    CHOOSE s \in {1, 2, 4, 8, 16, 32, 64, 128, 256, 512, 1024} :
        (s <= n \/ s = 1) /\ (2 * s > n \/ s = 1024)

\* x.d, with x.q digits after the point, stands for a value times 2^-x.b.  It
\* is doubled as often as leaves it below 2^53 with x.b at -1074 or more: by
\* step, step / 2, ..., 1 doublings that leave it below 2^52, and once more
RECURSIVE ScaleUp(_, _)
ScaleUp(x, step) ==
    IF step = 0
    THEN IF x.b > -1074 /\ CmpInt(x.d, x.q, TwoTo52) < 0
         THEN [d |-> Double(x.d), q |-> x.q, b |-> x.b - 1]
         ELSE x
    ELSE IF x.b - step >= -1074 /\ CmpInt(TimesTwoTo(x.d, step), x.q, TwoTo52) < 0
         THEN ScaleUp([d |-> TimesTwoTo(x.d, step), q |-> x.q, b |-> x.b - step], step \div 2)
         ELSE ScaleUp(x, step \div 2)

\* it is halved until it is below 2^53: by step, step / 2, ..., 1 halvings
\* that leave it at 2^53 or more, and once more
RECURSIVE ScaleDown(_, _)
ScaleDown(x, step) ==
    IF step = 0
    THEN IF CmpInt(x.d, x.q, TwoTo53) >= 0
         THEN [d |-> Half(x.d \o <<0>>), q |-> x.q + 1, b |-> x.b + 1]
         ELSE x
    ELSE IF CmpInt(OverTwoTo(x.d, step), x.q + step, TwoTo53) >= 0
         THEN ScaleDown([d |-> OverTwoTo(x.d, step), q |-> x.q + step, b |-> x.b + step],
                        step \div 2)
         ELSE ScaleDown(x, step \div 2)

\* x rounded to an integer, ties to even: the significand m and the exponent b
\* of a binary64 value, whether it is zero, whether it is beyond the largest
\* finite value
Rounded(x) ==
    LET Fit(m) ==
          IF CmpNat(m, TwoTo53) = 0
          THEN [zero |-> FALSE, inf |-> x.b + 1 > 971, m |-> TwoTo52, b |-> x.b + 1]
          ELSE [zero |-> m = <<0>>, inf |-> x.b > 971, m |-> m, b |-> x.b]
        Round(m, f) == Fit(IF RoundsUp(f, m[Len(m)] % 2 = 1) THEN Inc(m) ELSE m)
        Whole(int) == SubSeq(int, Min(FirstNonZero(int), Len(int)), Len(int))
    IN Round(Whole(SubSeq(x.d, 1, Len(x.d) - x.q)), SubSeq(x.d, Len(x.d) - x.q + 1, Len(x.d)))

\* the binary64 value nearest to 0.s * 10^n, ties to even.  The value is
\* scaled by the power of two that brings it into 2^52 .. 2^53 - 1 (below 2^52
\* for a subnormal) and rounded to an integer.
ToBinary64(s, n) ==
    Rounded(ScaleDown(ScaleUp([d |-> <<0>> \o (IF n >= Len(s) THEN s \o Zeros(n - Len(s))
                                                ELSE Zeros(-n) \o s),
                               q |-> IF n >= Len(s) THEN 0 ELSE Len(s) - n,
                               b |-> 0],
                              StepFor(52 + 4 * (IF n < 1 THEN 1 - n ELSE 0))),
                      StepFor(4 * n)))

\* the decimal of k digits at or below x (up = FALSE), or the next one above
Candidate(x, k, up) ==
    LET Cut(at) == (IF up THEN Inc(SubSeq(x, 1, at)) ELSE SubSeq(x, 1, at)) \o Zeros(Len(x) - at)
    IN Cut(Min(FirstNonZero(x) + k - 1, Len(x)))

\* x with the bounds lo and hi of the numbers that round to it, which round to
\* it themselves when closed; x with a leading 0.  Whether the decimal of k
\* digits below or above x rounds to x.
ReadsBack(x, lo, hi, closed, k, up) ==
    IF up THEN CmpNat(Candidate(x, k, TRUE), hi) < (IF closed THEN 1 ELSE 0)
    ELSE CmpNat(Candidate(x, k, FALSE), lo) > (IF closed THEN -1 ELSE 0)

\* the decimal of the fewest digits that rounds to x, the one closest to x (the
\* even one on a tie) if two do; 17 digits always do
Shortest(x, lo, hi, closed) ==
    LET Ok(k) == ReadsBack(x, lo, hi, closed, k, FALSE) \/ ReadsBack(x, lo, hi, closed, k, TRUE)
        Rest(from) == SubSeq(x, Min(from, Len(x) + 1), Len(x))
        Closest(k) ==
          IF ~ReadsBack(x, lo, hi, closed, k, TRUE) THEN Candidate(x, k, FALSE)
          ELSE IF ~ReadsBack(x, lo, hi, closed, k, FALSE) THEN Candidate(x, k, TRUE)
          ELSE Candidate(x, k, RoundsUp(Rest(FirstNonZero(x) + k),
                                        x[FirstNonZero(x) + k - 1] % 2 = 1))
    IN Closest(CHOOSE k \in 1..17 : Ok(k) /\ (k = 1 \/ ~Ok(k - 1)))

\* the Number with the digits of c, which has q digits after the point
Trimmed(neg, c, q) ==
    [nan |-> FALSE, inf |-> FALSE, neg |-> neg,
     s |-> SubSeq(c, FirstNonZero(c), LastNonZero(c)),
     n |-> Len(c) - q - FirstNonZero(c) + 1]

\* the binary64 value m * 2^b by Number::toString's digits s and exponent n
\* (the value is 0.s * 10^n).  With y = 4m, the numbers that round to the value
\* lie within y - 2 .. y + 2 times 2^(b - 2), within y - 1 .. y + 2 above a
\* power of two, and the bounds round to it when m is even.
ShortestDecimal(neg, m, b) ==
    LET Within(y) ==
          Shortest(<<0>> \o ScaleBy(y, b - 2),
                   ScaleBy(IF CmpNat(m, TwoTo52) = 0 /\ b > -1074 THEN Dec(y) ELSE Dec(Dec(y)),
                           b - 2),
                   ScaleBy(Inc(Inc(y)), b - 2),
                   m[Len(m)] % 2 = 0)
    IN Trimmed(neg, Within(Double(Double(<<0>> \o m))), IF b < 2 THEN 2 - b ELSE 0)

\* A Number: NaN, an infinity, or the binary64 value 0.s * 10^n with s its
\* digits as Number::toString gives them (no digits for zero), and its sign.
NaN == [nan |-> TRUE, inf |-> FALSE, neg |-> FALSE, s |-> << >>, n |-> 0]

\* the Number of a rounded binary64 value v
FromBinary64(neg, v) ==
    IF v.zero THEN [nan |-> FALSE, inf |-> FALSE, neg |-> neg, s |-> << >>, n |-> 0]
    ELSE IF v.inf THEN [nan |-> FALSE, inf |-> TRUE, neg |-> neg, s |-> << >>, n |-> 0]
    ELSE ShortestDecimal(neg, v.m, v.b)

\* the Number a decimal literal 0.s * 10^n denotes, s without leading and
\* trailing zeros: the binary64 value nearest to it.  Beyond 10^309 that is an
\* infinity and below 10^-323 zero; a literal of at most 15 digits between
\* 10^-300 and 10^300 is the shortest decimal of its own value.
NumberOf(neg, s, n) ==
    IF s = << >> \/ n < -323 THEN [nan |-> FALSE, inf |-> FALSE, neg |-> neg, s |-> << >>, n |-> 0]
    ELSE IF n > 309 THEN [nan |-> FALSE, inf |-> TRUE, neg |-> neg, s |-> << >>, n |-> 0]
    ELSE IF Len(s) <= 15 /\ n >= -300 /\ n <= 300
         THEN [nan |-> FALSE, inf |-> FALSE, neg |-> neg, s |-> s, n |-> n]
    ELSE FromBinary64(neg, ToBinary64(s, n))

\* the exponent an exponent part gives: 'e' or 'E', an optional sign and at
\* least one digit; 0 when the text t does not go on with one
ExponentOf(t, cap) ==
    IF t = << >> \/ Head(t) \notin {"e", "E"} THEN 0
    ELSE IF Len(t) > 1 /\ t[2] = "-"
         THEN -IntOf(DigitValues(TakeDigits(SubSeq(t, 3, Len(t)))), 0, cap)
    ELSE IF Len(t) > 1 /\ t[2] = "+"
         THEN IntOf(DigitValues(TakeDigits(SubSeq(t, 3, Len(t)))), 0, cap)
    ELSE IntOf(DigitValues(TakeDigits(SubSeq(t, 2, Len(t)))), 0, cap)

\* the Number of the digits all, point of them before the point, times 10^exp
Significand(neg, all, point, exp) ==
    IF all = << >> THEN NaN
    ELSE NumberOf(neg, SubSeq(all, FirstNonZero(all), LastNonZero(all)),
                  point - FirstNonZero(all) + 1 + exp)

\* digits, digits '.' digits or '.' digits, each with an optional exponent
\* part: ints are the digits that rest begins with, fracs those after a point
DecimalLiteral(neg, rest, ints, fracs, cap) ==
    Significand(neg, DigitValues(ints \o fracs), Len(ints),
                ExponentOf(SubSeq(rest, Len(ints) + Len(fracs) + 1
                                        + (IF Len(rest) > Len(ints) /\ rest[Len(ints) + 1] = "."
                                           THEN 1 ELSE 0), Len(rest)), cap))

\* a StrUnsignedDecimalLiteral at the beginning of rest: Infinity or a decimal
\* literal
StrUnsignedDecimalLiteral(neg, rest, ints, cap) ==
    IF Len(rest) >= 8 /\ SubSeq(rest, 1, 8) = <<"I", "n", "f", "i", "n", "i", "t", "y">>
    THEN [nan |-> FALSE, inf |-> TRUE, neg |-> neg, s |-> << >>, n |-> 0]
    ELSE DecimalLiteral(neg, rest, ints,
                        IF Len(rest) > Len(ints) /\ rest[Len(ints) + 1] = "."
                        THEN TakeDigits(SubSeq(rest, Len(ints) + 2, Len(rest))) ELSE << >>, cap)

\* a StrDecimalLiteral at the beginning of t: an optional sign and a
\* StrUnsignedDecimalLiteral
StrDecimalLiteral(t, cap) ==
    IF t # << >> /\ Head(t) \in {"-", "+"}
    THEN StrUnsignedDecimalLiteral(Head(t) = "-", Tail(t), TakeDigits(Tail(t)), cap)
    ELSE StrUnsignedDecimalLiteral(FALSE, t, TakeDigits(t), cap)

\* parseFloat: leading white space is dropped; then the longest prefix that
\* is a StrDecimalLiteral; NaN when there is none; the value is the binary64
\* value nearest to the literal
parseFloat(text) == StrDecimalLiteral(TrimStart(text), Len(text) + 1400)

isNaN(v) == v.nan

\* a === b on numbers: NaN equals nothing, -0 equals 0
NumEq(a, b) ==
    /\ ~a.nan /\ ~b.nan
    /\ a.inf = b.inf /\ a.s = b.s /\ a.n = b.n
    /\ (a.neg = b.neg \/ (a.s = << >> /\ ~a.inf))

RECURSIVE DecimalOf(_)
DecimalOf(n) ==
    IF n < 10 THEN <<DecimalDigits[n + 1]>>
    ELSE DecimalOf(n \div 10) \o DecimalOf(n % 10)

\* String(v) of a number (Number::toString): no sign on zero; with s the k
\* significant digits and the value s * 10^(n - k), an integer for k <= n <= 21,
\* positional for 0 < n <= 21 and for -6 < n <= 0, exponent form otherwise
NumberToString(v) ==
    IF v.nan THEN <<"N", "a", "N">>
    ELSE IF v.inf
         THEN (IF v.neg THEN <<"-">> ELSE << >>) \o <<"I", "n", "f", "i", "n", "i", "t", "y">>
    ELSE IF v.s = << >> THEN <<"0">>
    ELSE
      LET s == [i \in 1..Len(v.s) |-> DecimalDigits[v.s[i] + 1]]
          k == Len(s)
          n == v.n
          e == n - 1
          sign == IF v.neg THEN <<"-">> ELSE << >>
      IN sign \o
         (IF k <= n /\ n <= 21 THEN s \o [i \in 1..(n - k) |-> "0"]
          ELSE IF 0 < n /\ n <= 21 THEN SubSeq(s, 1, n) \o <<".">> \o SubSeq(s, n + 1, k)
          ELSE IF -6 < n /\ n <= 0 THEN <<"0", ".">> \o [i \in 1..(-n) |-> "0"] \o s
          ELSE <<s[1]>> \o (IF k > 1 THEN <<".">> \o SubSeq(s, 2, k) ELSE << >>)
               \o <<"e">> \o (IF e >= 0 THEN <<"+">> ELSE <<"-">>)
               \o DecimalOf(IF e >= 0 THEN e ELSE -e))

----------------------------------------------------------------------------
(* api.ts: fetchQueue                                                       *)

NoParams == [has |-> {}, component |-> "", state |-> "", min_score |-> NaN,
             build_from |-> "", build_to |-> ""]

\* a truthiness test in place of the null and "" tests: it drops the number 0
SentIfTruthy(params, k) ==
    CASE k = "component" -> params.component # ""
      [] k = "state" -> params.state # ""
      [] k = "min_score" -> ~params.min_score.nan
                            /\ (params.min_score.inf \/ params.min_score.s # << >>)
      [] k = "build_from" -> params.build_from # ""
      [] k = "build_to" -> params.build_to # ""

\* v != null && v !== "" for the value of key k of the params object
SentByFetchQueue(params, k) ==
    CASE k = "component" -> params.component # ""
      [] k = "state" -> params.state # ""
      [] k = "min_score" -> TRUE
      [] k = "build_from" -> params.build_from # ""
      [] k = "build_to" -> params.build_to # ""

\* fetchQueue(apiBase, params): the GET request it sends, with its query string
fetchQueue(params) ==
    LET has == {k \in params.has : SentByFetchQueue(params, k)}
    IN [path |-> "/queue",
        has |-> has,
        component |-> IF "component" \in has THEN params.component ELSE "",
        state |-> IF "state" \in has THEN params.state ELSE "",
        min_score |-> IF "min_score" \in has THEN NumberToString(params.min_score) ELSE << >>,
        build_from |-> IF "build_from" \in has THEN params.build_from ELSE "",
        build_to |-> IF "build_to" \in has THEN params.build_to ELSE ""]

----------------------------------------------------------------------------
(* QueueView.tsx                                                            *)

MaxFetches == 4       \* GET /queue requests issued in one run

\* the values the filter bar can give each filter
ComponentTexts == {"", "syslogd"}
StateOptions == {"", "pending", "accepted", "denied", "in_progress"}
MinScoreTexts == {<< >>, <<"0">>, <<"5">>, <<"0", ".", "5">>, <<"-", "5">>, <<"-">>,
                  <<".">>, <<"-", "0">>, <<"0", "5", "0">>, <<".", "5", "0">>,
                  <<"0", ".", "0", "0", "0", "0", "0", "0", "5">>,
                  \* more digits than a binary64 value holds
                  <<"0", ".", "5", "5", "5", "5", "5", "5", "5", "5", "5", "5", "5",
                    "5", "5", "5", "5", "5", "5", "5", "5", "5", "5", "5">>,
                  \* beyond the largest and below the smallest binary64 value
                  <<"5", "e", "5", "5", "5">>, <<"5", "e", "-", "5", "5", "5">>}

\* what the server may answer: the rows, by diff id
QueueResponses == {<< >>, <<"1">>, <<"1", "2">>}

\* parseFloat of each text the min score input gives, computed once
ParsedMinScores == {<<t, parseFloat(t)>> : t \in MinScoreTexts}

\* the params object the effect builds from the filters, min being
\* parseFloat(filterMinScore)
QueueParams(fc, fs, min) ==
    [NoParams EXCEPT
       !.has = (IF Truthy(fc) THEN {"component"} ELSE {})
               \cup (IF Truthy(fs) THEN {"state"} ELSE {})
               \cup (IF ~isNaN(min) THEN {"min_score"} ELSE {}),
       !.component = IF Truthy(fc) THEN fc ELSE "",
       !.state = IF Truthy(fs) THEN fs ELSE "",
       !.min_score = IF ~isNaN(min) THEN min ELSE NaN]

\* one run of the effect: the request it sends and its `cancelled` flag
QueueEffect(fc, fs, fm, n) ==
    [seq |-> n, cancelled |-> FALSE,
     request |-> fetchQueue(QueueParams(fc, fs, (CHOOSE p \in ParsedMinScores : p[1] = fm)[2]))]

\* an effect without the cleanup: no run is ever marked cancelled
CancelNothing(reqs) == reqs

\* the effect's cleanup sets `cancelled` of the run it belongs to
Cancel(reqs) == [i \in 1..Len(reqs) |-> [reqs[i] EXCEPT !.cancelled = TRUE]]

Remove(reqs, i) == SubSeq(reqs, 1, i - 1) \o SubSeq(reqs, i + 1, Len(reqs))

\* a dependency changed: cleanup of the previous run, then the effect again
QueueRerun(fc, fs, fm) ==
    /\ qFetches < MaxFetches
    /\ qInflight' = Append(Cancel(qInflight), QueueEffect(fc, fs, fm, qFetches + 1))
    /\ qFetches' = qFetches + 1

\* the view mounts with its initial state and runs the effect (twice, with a
\* cleanup in between, under StrictMode)
QueueMounts ==
    /\ ~qMounted
    /\ qFetches + (IF strictMode THEN 2 ELSE 1) <= MaxFetches
    /\ qMounted' = TRUE
    /\ items' = << >>
    /\ qLoading' = TRUE
    /\ qError' = None
    /\ filterComponent' = ""
    /\ filterState' = ""
    /\ filterMinScore' = << >>
    /\ qInflight' =
         IF strictMode
         THEN Cancel(Append(Cancel(qInflight), QueueEffect("", "", << >>, qFetches + 1)))
              \o <<QueueEffect("", "", << >>, qFetches + 2)>>
         ELSE Append(Cancel(qInflight), QueueEffect("", "", << >>, qFetches + 1))
    /\ qFetches' = qFetches + (IF strictMode THEN 2 ELSE 1)

\* the app is opened on "/"
QueueMount ==
    /\ QueueMounts
    /\ UNCHANGED <<db, mkVars, suVars, strictMode, dVars>>

\* the filter bar is rendered only past the loading and error returns
FilterBarShown == qMounted /\ ~qLoading /\ ~(qError # None /\ Truthy(qError[1]))

SetFilterComponent(v) ==
    /\ FilterBarShown
    /\ v # filterComponent
    /\ filterComponent' = v
    /\ QueueRerun(v, filterState, filterMinScore)
    /\ UNCHANGED <<qMounted, items, qLoading, qError, filterState, filterMinScore>>
    /\ UNCHANGED <<db, mkVars, suVars, strictMode, dVars>>

SetFilterState(v) ==
    /\ FilterBarShown
    /\ v # filterState
    /\ filterState' = v
    /\ QueueRerun(filterComponent, v, filterMinScore)
    /\ UNCHANGED <<qMounted, items, qLoading, qError, filterComponent, filterMinScore>>
    /\ UNCHANGED <<db, mkVars, suVars, strictMode, dVars>>

SetFilterMinScore(v) ==
    /\ FilterBarShown
    /\ v # filterMinScore
    /\ filterMinScore' = v
    /\ QueueRerun(filterComponent, filterState, v)
    /\ UNCHANGED <<qMounted, items, qLoading, qError, filterComponent, filterState>>
    /\ UNCHANGED <<db, mkVars, suVars, strictMode, dVars>>

\* the request answered with r.ok: .then and .finally of the run it belongs to
QueueResolve(i, data) ==
    /\ i \in 1..Len(qInflight)
    /\ items' = IF ~qInflight[i].cancelled THEN data ELSE items
    /\ qLoading' = IF ~qInflight[i].cancelled THEN FALSE ELSE qLoading
    /\ qInflight' = Remove(qInflight, i)
    /\ UNCHANGED <<qMounted, qError, filterComponent, filterState, filterMinScore, qFetches>>
    /\ UNCHANGED <<db, mkVars, suVars, strictMode, dVars>>

\* the request failed (not r.ok, or no answer): .catch and .finally
QueueReject(i, msg) ==
    /\ i \in 1..Len(qInflight)
    /\ qError' = IF ~qInflight[i].cancelled THEN Some(msg) ELSE qError
    /\ qLoading' = IF ~qInflight[i].cancelled THEN FALSE ELSE qLoading
    /\ qInflight' = Remove(qInflight, i)
    /\ UNCHANGED <<qMounted, items, filterComponent, filterState, filterMinScore, qFetches>>
    /\ UNCHANGED <<db, mkVars, suVars, strictMode, dVars>>

\* the route changes away from "/": the cleanup runs and the state is dropped
QueueUnmounts ==
    /\ qMounted
    /\ qMounted' = FALSE
    /\ qInflight' = Cancel(qInflight)
    /\ items' = << >> /\ qLoading' = TRUE /\ qError' = None
    /\ filterComponent' = "" /\ filterState' = "" /\ filterMinScore' = << >>
    /\ UNCHANGED qFetches

\* the URL changes to one that no route matches
QueueUnmount ==
    /\ QueueUnmounts
    /\ UNCHANGED <<db, mkVars, suVars, strictMode, dVars>>

----------------------------------------------------------------------------
(* The pipeline: make and setup.sh on one machine, writing to one store     *)

IdleQueue ==
    /\ qMounted = FALSE /\ items = << >> /\ qLoading = TRUE /\ qError = None
    /\ filterComponent = "" /\ filterState = "" /\ filterMinScore = << >>
    /\ qInflight = << >> /\ qFetches = 0

IdleDetail ==
    /\ dMounted = FALSE /\ dMounts = 0 /\ diffId = "" /\ diff = None /\ reports = None
    /\ dLoading = TRUE /\ dError = None /\ triageState = "" /\ triageNotes = ""
    /\ saving = FALSE /\ dInflight = << >> /\ tInflight = << >> /\ dLoads = 0
    /\ tPosts = 0

InitMake ==
    /\ mkGoal \in {"demo", "quickstart"}
    /\ mkTarget = 1 /\ mkLine = 1 /\ mkChild = NoCmd /\ mkStatus = "running"
    /\ mkStarted = << >> /\ mkExited = << >>

InitSetup ==
    /\ env \in Envs
    /\ suArgs \in ArgLists
    /\ RUN_DEMO = FALSE /\ PY_VER = "" /\ suPc = "args" /\ suLine = 1
    /\ suChild = NoCmd /\ suExit = NotExited /\ suOut = {}
    /\ suStarted = << >> /\ suExited = << >>

Init ==
    /\ db = EmptyDb
    /\ InitMake
    /\ InitSetup
    /\ strictMode = FALSE
    /\ IdleQueue
    /\ IdleDetail

Next ==
    \/ MakeStart
    \/ \E st \in Statuses : MakeExit(st)
    \/ \E st \in Statuses : MakeServerExit(st)
    \/ MakeNextTarget
    \/ SetupArgs
    \/ SetupCheckPython
    \/ SetupCheckNpm
    \/ SetupVenvSkip
    \/ SetupStart
    \/ \E st \in Statuses : SetupExit(st)
    \/ SetupComplete

Spec == Init /\ [][Next]_vars

----------------------------------------------------------------------------
(* Properties of the pipeline                                               *)

Sub(c) == IF IsCli(c) THEN c.argv[4] ELSE ""

\* positions of a history at which a command with subcommand sub, and build id
\* b when b is given, exited with status 0
Succeeded(started, exited, sub, b) ==
    {j \in 1..Len(exited) : /\ Sub(started[j]) = sub
                            /\ exited[j] = 0
                            /\ (b = "" \/ OptVal(CliArgs(started[j]), "--build-id") = b)}

Before(S, i) == \E j \in S : j < i

\* the two-phase order on a history of started commands and exit statuses
TwoPhaseOrder(started, exited) ==
    /\ \A i \in 1..Len(started) :
         /\ Sub(started[i]) = "diff" =>
              \A sub \in {"ingest-source", "ingest-binary", "ingest-logs"}, b \in {"B1", "B2"} :
                 Before(Succeeded(started, exited, sub, b), i)
         /\ Sub(started[i]) = "score" => Before(Succeeded(started, exited, "diff", ""), i)
         /\ Sub(started[i]) = "report" => Before(Succeeded(started, exited, "score", ""), i)
    /\ \A j \in 1..Len(exited) : exited[j] # 0 => Len(started) = j

\* C1: in make's demo recipe and in setup.sh's demo section the diff step starts
\* only after the six ingest steps ended with status 0, score only after diff did,
\* report only after score did, and no step starts after a step that failed.
C1_TwoPhaseOrder ==
    /\ TwoPhaseOrder(mkStarted, mkExited)
    /\ TwoPhaseOrder(suStarted, suExited)

C1_Witness ==
    /\ \E i \in 1..Len(mkStarted) : Sub(mkStarted[i]) = "report"
    /\ \E i \in 1..Len(suStarted) : Sub(suStarted[i]) = "report"
    /\ \E j \in 1..Len(mkExited) : mkExited[j] # 0

\* a run of the demo sequence went through: its nine CLI commands ended with 0
DemoRan(started, exited) ==
    Cardinality({j \in 1..Len(exited) : IsCli(started[j]) /\ exited[j] = 0}) = 9

DemoDiffs ==
    {i \in 1..Len(db.diffs) : /\ db.diffs[i].build_from = "B1"
                              /\ db.diffs[i].build_to = "B2"
                              /\ db.diffs[i].component = "syslogd"}

\* C4: once the demo sequence has run end-to-end, the diff between B1 and B2 for
\* syslogd holds the source evidence of source_b1/source_b2: its hunks and the
\* alloc_math and bounds_check features.
C4_DemoDiffHasSourceEvidence ==
    (DemoRan(mkStarted, mkExited) \/ DemoRan(suStarted, suExited)) =>
        /\ DemoDiffs # {}
        /\ \A i \in DemoDiffs :
             /\ db.diffs[i].evidence_bundle.diff_hunks # {}
             /\ \A k \in {"alloc_math", "bounds_check"} :
                  \E f \in db.diffs[i].evidence_bundle.source_features : f.kind = k

\* the tools the README asks for: Python 3.10+, Node 18+, npm
PythonOk(e) == e.python3 \in {"3.10"}
NodeOk(e) == e.node \in {"v18"} /\ e.npm
InstallCmds == {VenvCmd, PipCmd, NpmInstallCmd}

\* C7: when Python 3.10+ or Node 18+ with npm is missing, setup.sh stops before
\* it creates the venv or installs anything.
C7_StopsWithoutRequiredTools ==
    ~(PythonOk(env) /\ NodeOk(env)) =>
        \A i \in 1..Len(suStarted) : suStarted[i] \notin InstallCmds

\* what the two checks of the script do give: without python3 or without npm on
\* PATH nothing is installed and the exit status is 1
StopsWithoutPythonOrNpm ==
    (env.python3 = "none" \/ ~env.npm) =>
        /\ \A i \in 1..Len(suStarted) : suStarted[i] \notin InstallCmds
        /\ (suPc = "exited" /\ suExited = << >>) => suExit = 1

Rank(c) ==
    CASE c = PyVerCmd -> 0
      [] c = VenvCmd -> 1
      [] c = PipCmd -> 2
      [] c = NpmInstallCmd -> 3
      [] OTHER -> 4

DemoPassed == \E i \in 1..Len(suArgs) : suArgs[i] = "--demo"

\* C8: setup.sh runs backend install, frontend install, demo in this order; the
\* demo runs only with --demo and only after both installs ended with status 0;
\* a failed step ends the script, and "Setup complete" is printed only if every
\* step that ran ended with status 0.
C8_SetupOrder ==
    /\ \A i, j \in 1..Len(suStarted) : i < j => Rank(suStarted[i]) <= Rank(suStarted[j])
    /\ \A i \in 1..Len(suStarted) :
         IsCli(suStarted[i]) =>
            /\ DemoPassed
            /\ \E j \in 1..(i - 1) : suStarted[j] = PipCmd /\ suExited[j] = 0
            /\ \E j \in 1..(i - 1) : suStarted[j] = NpmInstallCmd /\ suExited[j] = 0
    /\ \A j \in 1..Len(suExited) :
         suExited[j] # 0 => Len(suStarted) = j /\ suPc = "exited" /\ suExit # 0
    /\ "Setup complete" \in suOut =>
         /\ Len(suExited) = Len(suStarted)
         /\ \A j \in 1..Len(suExited) : suExited[j] = 0
         /\ \E j \in 1..Len(suStarted) : suStarted[j] = PipCmd
         /\ \E j \in 1..Len(suStarted) : suStarted[j] = NpmInstallCmd
         /\ DemoPassed <=> \E j \in 1..Len(suStarted) : IsCli(suStarted[j])

C8_Witness ==
    /\ "Setup complete" \in suOut
    /\ "Demo OK" \in suOut
    /\ VenvCmd \in {suStarted[i] : i \in 1..Len(suStarted)}

\* the CLI commands of a history, each as its working directory and CLI arguments
CliCalls(started) ==
    LET F[i \in 0..Len(started)] ==
          IF i = 0 THEN << >>
          ELSE IF IsCli(started[i])
               THEN Append(F[i - 1], [cwd |-> started[i].cwd, args |-> CliArgs(started[i])])
               ELSE F[i - 1]
    IN F[Len(started)]

\* C9: make demo and the demo section of setup.sh issue the same CLI commands
\* with the same arguments in the same order from the same directory, which is
\* the directory serve-api runs in, so they write to the store it reads.
C9_SameDemoCommands ==
    LET m == CliCalls(mkStarted)
        u == CliCalls(suStarted)
    IN /\ \A i \in 1..Min(Len(m), Len(u)) : m[i] = u[i]
       /\ \A i \in 1..Len(m) : m[i].cwd = serve_api[1].cwd
       /\ \A i \in 1..Len(u) : u[i].cwd = serve_api[1].cwd
       /\ Len(m) <= 9 /\ Len(u) <= 9

C9_Witness ==
    /\ Len(CliCalls(mkStarted)) = 9
    /\ Len(CliCalls(suStarted)) = 9
    /\ mkStatus = "done"
    /\ suExit = 0

\* make's CLI commands of the demo recipe all ended with status 0
MakeDemoDone == mkTarget > 1 \/ (MakeTarget = "demo" /\ mkLine > Len(demo))

\* C10: make quickstart brings up both servers: after the demo completes, a
\* state is reached in which serve-api and serve-frontend are both running.
C10_QuickstartServesBoth ==
    (mkGoal = "quickstart" /\ MakeDemoDone) ~> (apiRunning /\ frontendRunning)

\* make runs one recipe line at a time: the two servers never run together
NeverBothServers == ~(apiRunning /\ frontendRunning)

\* the CLI commands end; the two servers need not
FairSpec ==
    /\ Spec
    /\ WF_vars(MakeStart)
    /\ WF_vars(\E st \in Statuses : MakeExit(st))
    /\ WF_vars(MakeNextTarget)

----------------------------------------------------------------------------
(* The queue view in the browser, against a store loaded by make demo       *)

RECURSIVE RunAll(_, _)
RunAll(d, cmds) == IF cmds = << >> THEN d ELSE RunAll(AfterExit(d, Head(cmds), 0), Tail(cmds))

\* the store after the k first commands of the demo recipe ended with status 0
DemoDb(k) == RunAll(EmptyDb, SubSeq(demo, 1, k))

\* make demo has run through; setup.sh is not running
PipelineDone ==
    /\ mkGoal = "demo" /\ mkTarget = 1 /\ mkLine = Len(demo) + 1 /\ mkChild = NoCmd
    /\ mkStatus = "done" /\ mkStarted = demo /\ mkExited = [i \in 1..Len(demo) |-> 0]
    /\ env = [python3 |-> "3.10", npm |-> TRUE, node |-> "v18", venv |-> TRUE]
    /\ suArgs = << >> /\ RUN_DEMO = FALSE /\ PY_VER = "" /\ suPc = "args" /\ suLine = 1
    /\ suChild = NoCmd /\ suExit = NotExited /\ suOut = {}
    /\ suStarted = << >> /\ suExited = << >>

InitQueue ==
    /\ db = DemoDb(Len(demo))
    /\ PipelineDone
    /\ strictMode \in BOOLEAN
    /\ IdleQueue
    /\ IdleDetail

NextQueue ==
    \/ QueueMount
    \/ \E v \in ComponentTexts : SetFilterComponent(v)
    \/ \E v \in StateOptions : SetFilterState(v)
    \/ \E v \in MinScoreTexts : SetFilterMinScore(v)
    \/ \E i \in 1..MaxFetches, data \in QueueResponses : QueueResolve(i, data)
    \/ \E i \in 1..MaxFetches, msg \in ErrorMessages : QueueReject(i, msg)
    \/ QueueUnmount

SpecQueue == InitQueue /\ [][NextQueue]_vars

\* the request of the effect's latest run, while it is unanswered
HasLive == qInflight # << >> /\ ~qInflight[Len(qInflight)].cancelled
Live == qInflight[Len(qInflight)].request

QueueFilters == {"component", "state", "min_score", "build_from", "build_to"}

\* what the user can do in the filter bar
FilterAction ==
    \/ \E v \in ComponentTexts : SetFilterComponent(v)
    \/ \E v \in StateOptions : SetFilterState(v)
    \/ \E v \in MinScoreTexts : SetFilterMinScore(v)

CanFilter == FilterBarShown /\ qFetches < MaxFetches

\* C5: for each of component, state, min_score, build_from and build_to there
\* is a user action in the queue view after which a GET /queue request that
\* carries the parameter is issued.
C5_EveryFilterHasAnAction ==
    CanFilter =>
        \A f \in QueueFilters :
            ENABLED (FilterAction /\ f \in qInflight'[Len(qInflight')].request.has)

\* the three filters the view does have a control for
ThreeFiltersHaveAnAction ==
    CanFilter =>
        \A f \in {"component", "state", "min_score"} :
            ENABLED (FilterAction /\ f \in qInflight'[Len(qInflight')].request.has)

\* no request of the view ever carries the build range
NeverBuildRange ==
    \A i \in 1..Len(qInflight) : qInflight[i].request.has \cap {"build_from", "build_to"} = {}

\* C6: a request of the queue view carries exactly the parameters among
\* component, state and min_score whose filter is set (non-empty text, resp. a
\* text that parses to a number), with the filter's value; a minimum score of 0
\* is set and is sent.
C6_OptionalFilters ==
    HasLive =>
        /\ Live.has = {k \in {"component", "state", "min_score"} :
                          \/ k = "component" /\ filterComponent # ""
                          \/ k = "state" /\ filterState # ""
                          \/ k = "min_score" /\ ~isNaN(parseFloat(filterMinScore))}
        /\ Live.component = filterComponent
        /\ Live.state = filterState
        /\ "min_score" \in Live.has => NumEq(parseFloat(Live.min_score), parseFloat(filterMinScore))
        /\ filterMinScore \in {<<"0">>, <<"-", "0">>} => "min_score" \in Live.has

C6_Witness ==
    /\ HasLive
    /\ filterMinScore = <<"0">>
    /\ filterComponent = "syslogd"
    /\ filterState = "denied"
    /\ Live.has = {"component", "state", "min_score"}
    /\ Live.min_score = <<"0">>

----------------------------------------------------------------------------
(* The backend API the views call, modelled from the architecture notes     *)

HasDiff(d, id) == DiffIndex(id) \in 1..Len(d.diffs)

\* GET /diff/{id}: evidence bundle, score result (null before scoring), state, notes
ApiGetDiff(d, id) ==
    LET x == d.diffs[DiffIndex(id)]
    IN [id |-> x.id, build_from |-> x.build_from, build_to |-> x.build_to,
        component |-> x.component, evidence_bundle |-> x.evidence_bundle,
        score_result |-> IF x.score_result = NoScore THEN None ELSE Some(x.score_result),
        state |-> x.state, notes |-> x.notes]

\* GET /reports/{diff_id}: all reports of the diff
ApiGetReports(d, id) ==
    [diff_id |-> id, types |-> IF id \in d.reports
                               THEN {"triage", "reverse_context", "vuln_hypotheses", "fuzz_plan", "telemetry"}
                               ELSE {}]

\* POST /diff/{id}/triage: update state and notes
ApiPostTriage(d, id, body) ==
    [d EXCEPT !.diffs[DiffIndex(id)].state = body.state,
              !.diffs[DiffIndex(id)].notes = body.notes]

----------------------------------------------------------------------------
(* api.ts: fetchDiff, fetchReports, updateTriage                            *)

fetchDiff(id) == [method |-> "GET", path |-> <<"diff", id>>]

fetchReports(id) == [method |-> "GET", path |-> <<"reports", id>>]

\* an update that also puts the diff id in the form body
updateTriageWithId(id, state, notes) ==
    [method |-> "POST", path |-> <<"diff", id, "triage">>,
     body |-> [state |-> state, notes |-> notes, diff_id |-> id]]

\* body: new URLSearchParams({ state, notes })
updateTriage(id, state, notes) ==
    [method |-> "POST", path |-> <<"diff", id, "triage">>,
     body |-> [state |-> state, notes |-> notes]]

----------------------------------------------------------------------------
(* DiffDetailView.tsx                                                       *)

MaxLoads == 2         \* runs of the load effect in one run
MaxPosts == 1         \* triage updates sent in one run

RouteIds == {"1", "2"}
TriagePicks == {"denied"}                 \* the option of the select picked here
NotesTexts == {"looked at it"}            \* the notes the user types here

\* one run of the load effect: Promise.all of the two fetches, `cancelled`, and
\* the answer the server has produced for each request (None until it has)
LoadEffect(id, n) ==
    [seq |-> n, diffId |-> id, cancelled |-> FALSE,
     requests |-> <<fetchDiff(id), fetchReports(id)>>,
     answers |-> <<None, None>>]

DetailRerun(id) ==
    /\ dLoads < MaxLoads
    /\ dInflight' = IF Truthy(id) THEN Append(Cancel(dInflight), LoadEffect(id, dLoads + 1))
                    ELSE Cancel(dInflight)
    /\ dLoads' = dLoads + 1

\* the view mounts on /diff/:diffId with its initial state and runs the effect
\* (twice, with a cleanup in between, under StrictMode)
DetailMounts(id) ==
    /\ ~dMounted
    /\ dLoads + (IF strictMode THEN 2 ELSE 1) <= MaxLoads
    /\ dMounted' = TRUE
    /\ dMounts' = dMounts + 1
    /\ diffId' = id
    /\ diff' = None
    /\ reports' = None
    /\ dLoading' = TRUE
    /\ dError' = None
    /\ triageState' = ""
    /\ triageNotes' = ""
    /\ saving' = FALSE
    /\ dInflight' =
         IF strictMode
         THEN Cancel(Append(Cancel(dInflight), LoadEffect(id, dLoads + 1)))
              \o <<LoadEffect(id, dLoads + 2)>>
         ELSE Append(Cancel(dInflight), LoadEffect(id, dLoads + 1))
    /\ dLoads' = dLoads + (IF strictMode THEN 2 ELSE 1)
    /\ UNCHANGED <<tInflight, tPosts>>

\* the app is opened on /diff/:diffId
DetailMount(id) ==
    /\ DetailMounts(id)
    /\ UNCHANGED <<db, mkVars, suVars, strictMode, qVars>>

\* the route's :diffId changes while the view stays mounted: its state is kept,
\* the effect's cleanup runs and the effect runs again
DetailChangeRoute(id) ==
    /\ dMounted
    /\ id # diffId
    /\ diffId' = id
    /\ DetailRerun(id)
    /\ UNCHANGED <<dMounted, dMounts, diff, reports, dLoading, dError, triageState,
                   triageNotes, saving, tInflight, tPosts>>
    /\ UNCHANGED <<db, mkVars, suVars, strictMode, qVars>>

\* the route leaves /diff/:diffId: the cleanup runs and the state is dropped
DetailUnmounts ==
    /\ dMounted
    /\ dMounted' = FALSE
    /\ dInflight' = Cancel(dInflight)
    /\ diffId' = "" /\ diff' = None /\ reports' = None /\ dLoading' = TRUE
    /\ dError' = None /\ triageState' = "" /\ triageNotes' = "" /\ saving' = FALSE
    /\ UNCHANGED <<dMounts, tInflight, dLoads, tPosts>>

\* the URL changes to one that no route matches
DetailUnmount ==
    /\ DetailUnmounts
    /\ UNCHANGED <<db, mkVars, suVars, strictMode, qVars>>

\* a .then that keeps the evidence bundle it already holds and takes the rest
ThenLoadedKeepingBundle(d, r) ==
    /\ diff' = IF diff = None THEN Some(d)
                ELSE Some([d EXCEPT !.evidence_bundle = diff[1].evidence_bundle])
    /\ reports' = Some(r)
    /\ triageState' = d.state
    /\ triageNotes' = IF Truthy(d.notes) THEN d.notes ELSE ""
    /\ dLoading' = FALSE

\* .then(([d, r]) => ...) and .finally of a run that was not cancelled
ThenLoaded(d, r) ==
    /\ diff' = Some(d)
    /\ reports' = Some(r)
    /\ triageState' = d.state
    /\ triageNotes' = IF Truthy(d.notes) THEN d.notes ELSE ""
    /\ dLoading' = FALSE

\* the server handles request k of run i (1: GET /diff/{id}, 2: GET
\* /reports/{id}) and answers from the store as it is at that moment
ServeGet(i, k) ==
    /\ i \in 1..Len(dInflight)
    /\ dInflight[i].answers[k] = None
    /\ HasDiff(db, dInflight[i].diffId)
    /\ dInflight' = [dInflight EXCEPT ![i].answers[k] =
                        Some(IF k = 1 THEN ApiGetDiff(db, dInflight[i].diffId)
                             ELSE ApiGetReports(db, dInflight[i].diffId))]
    /\ UNCHANGED <<dMounted, dMounts, diffId, diff, reports, dLoading, dError, triageState,
                   triageNotes, saving, tInflight, dLoads, tPosts>>
    /\ UNCHANGED <<db, mkVars, suVars, strictMode, qVars>>

\* both answers of run i have arrived with r.ok: Promise.all resolves with
\* them, and .then and .finally run
LoadResolved(i) ==
    /\ i \in 1..Len(dInflight)
    /\ dInflight[i].answers[1] # None /\ dInflight[i].answers[2] # None
    /\ dInflight' = Remove(dInflight, i)
    /\ IF ~dInflight[i].cancelled
       THEN ThenLoaded(dInflight[i].answers[1][1], dInflight[i].answers[2][1])
       ELSE UNCHANGED <<diff, reports, triageState, triageNotes, dLoading>>
    /\ UNCHANGED <<dMounted, dMounts, diffId, dError, saving, tInflight, dLoads, tPosts>>
    /\ UNCHANGED <<db, mkVars, suVars, strictMode, qVars>>

\* one of the two fetches of run i failed: Promise.all rejects, .catch and
\* .finally run, and the other fetch's answer is dropped
LoadFailed(i, msg) ==
    /\ i \in 1..Len(dInflight)
    /\ dError' = IF ~dInflight[i].cancelled THEN Some(msg) ELSE dError
    /\ dLoading' = IF ~dInflight[i].cancelled THEN FALSE ELSE dLoading
    /\ dInflight' = Remove(dInflight, i)
    /\ UNCHANGED <<dMounted, dMounts, diffId, diff, reports, triageState, triageNotes,
                   saving, tInflight, dLoads, tPosts>>
    /\ UNCHANGED <<db, mkVars, suVars, strictMode, qVars>>

\* the triage form is rendered past the loading, error and "not found" returns
TriageFormShown ==
    /\ dMounted
    /\ ~dLoading
    /\ ~(dError # None /\ Truthy(dError[1]))
    /\ diff # None

SetTriageState(v) ==
    /\ TriageFormShown
    /\ triageState' = v
    /\ UNCHANGED <<dMounted, dMounts, diffId, diff, reports, dLoading, dError,
                   triageNotes, saving, dInflight, tInflight, dLoads, tPosts>>
    /\ UNCHANGED <<db, mkVars, suVars, strictMode, qVars>>

SetTriageNotes(v) ==
    /\ TriageFormShown
    /\ triageNotes' = v
    /\ UNCHANGED <<dMounted, dMounts, diffId, diff, reports, dLoading, dError,
                   triageState, saving, dInflight, tInflight, dLoads, tPosts>>
    /\ UNCHANGED <<db, mkVars, suVars, strictMode, qVars>>

\* the Save button (disabled while saving): handleSaveTriage
handleSaveTriage ==
    /\ TriageFormShown
    /\ ~saving
    /\ Truthy(diffId) /\ Truthy(triageState)
    /\ tPosts < MaxPosts
    /\ saving' = TRUE
    /\ tInflight' = Append(tInflight, [inst |-> dMounts, handled |-> FALSE,
                                       request |-> updateTriage(diffId, triageState, triageNotes)])
    /\ tPosts' = tPosts + 1
    /\ UNCHANGED <<dMounted, dMounts, diffId, diff, reports, dLoading, dError,
                   triageState, triageNotes, dInflight, dLoads>>
    /\ UNCHANGED <<db, mkVars, suVars, strictMode, qVars>>

\* the server handles the update: the store takes the state and notes
ServePostTriage(j) ==
    /\ j \in 1..Len(tInflight)
    /\ ~tInflight[j].handled
    /\ HasDiff(db, tInflight[j].request.path[2])
    /\ db' = ApiPostTriage(db, tInflight[j].request.path[2], tInflight[j].request.body)
    /\ tInflight' = [tInflight EXCEPT ![j].handled = TRUE]
    /\ UNCHANGED <<mkVars, suVars, strictMode, qVars>>
    /\ UNCHANGED <<dMounted, dMounts, diffId, diff, reports, dLoading, dError, triageState,
                   triageNotes, saving, dInflight, dLoads, tPosts>>

\* the update's fetch settles: with r.ok once the server has handled it, or
\* with a failure (whether or not it was handled); .then and .catch both
\* setSaving(false), in the instance of the view that sent it
TriageAnswered(j, ok) ==
    /\ j \in 1..Len(tInflight)
    /\ ok => tInflight[j].handled
    /\ saving' = IF dMounted /\ tInflight[j].inst = dMounts THEN FALSE ELSE saving
    /\ tInflight' = Remove(tInflight, j)
    /\ UNCHANGED <<dMounted, dMounts, diffId, diff, reports, dLoading, dError,
                   triageState, triageNotes, dInflight, dLoads, tPosts>>
    /\ UNCHANGED <<db, mkVars, suVars, strictMode, qVars>>

\* the CLI run by hand while the UI is open: the diff of the component the
\* sources were ingested for, and its score
DiffCmd == <<"diff", "--from", "B1", "--to", "B2", "--component", "xnu">>

BackendCli(args) ==
    /\ CliCanSucceed(db, args)
    /\ db' = CliEffect(db, args)
    /\ UNCHANGED <<mkVars, suVars, strictMode, qVars, dVars>>

InitDetail ==
    /\ db = DemoDb(Len(demo))
    /\ PipelineDone
    /\ strictMode \in BOOLEAN
    /\ IdleQueue
    /\ IdleDetail

NextDetail ==
    \/ \E id \in RouteIds : DetailMount(id)
    \/ \E id \in RouteIds : DetailChangeRoute(id)
    \/ DetailUnmount
    \/ \E i \in 1..MaxLoads, k \in 1..2 : ServeGet(i, k)
    \/ \E i \in 1..MaxLoads : LoadResolved(i)
    \/ \E i \in 1..MaxLoads, msg \in ErrorMessages : LoadFailed(i, msg)
    \/ \E v \in TriagePicks : SetTriageState(v)
    \/ \E v \in NotesTexts : SetTriageNotes(v)
    \/ handleSaveTriage
    \/ \E j \in 1..MaxPosts : ServePostTriage(j)
    \/ \E j \in 1..MaxPosts, ok \in BOOLEAN : TriageAnswered(j, ok)
    \/ BackendCli(DiffCmd)

SpecDetail == InitDetail /\ [][NextDetail]_vars

\* the detail view of diffs that are created and scored while it is open
NextScores ==
    \/ \E id \in RouteIds : DetailMount(id)
    \/ \E id \in RouteIds : DetailChangeRoute(id)
    \/ DetailUnmount
    \/ \E i \in 1..MaxLoads, k \in 1..2 : ServeGet(i, k)
    \/ \E i \in 1..MaxLoads : LoadResolved(i)
    \/ \E i \in 1..MaxLoads, msg \in ErrorMessages : LoadFailed(i, msg)
    \/ \E args \in {DiffCmd, <<"score", "--diff-id", "2">>} : BackendCli(args)

SpecScores == InitDetail /\ [][NextScores]_vars

----------------------------------------------------------------------------
(* Properties of the diff detail view                                       *)

\* a step of the triage form: an edit, a save, or the answer to a save
TriageStep ==
    /\ dInflight' = dInflight
    /\ dMounted' = dMounted
    /\ \/ triageState' # triageState
       \/ triageNotes' # triageNotes
       \/ saving' # saving
       \/ tInflight' # tInflight

\* C2: every request the view sends to /diff/{id}/triage carries the fields
\* state and notes and no other; no edit, save or answer to a save changes the
\* diff (evidence bundle, score result) or the reports the view holds; the view's
\* diff changes only when a load puts the server's whole answer in its place.
C2_TriageIsMetadata ==
    /\ [](\A j \in 1..Len(tInflight) :
             /\ DOMAIN tInflight[j].request.body = {"state", "notes"}
             /\ tInflight[j].request.path[3] = "triage")
    /\ [][TriageStep => (diff' = diff /\ reports' = reports)]_vars
    /\ [][(diff' # diff /\ diff' # None) =>
             \E i \in 1..Len(dInflight) :
                 /\ dInflight' = Remove(dInflight, i)
                 /\ ~dInflight[i].cancelled
                 /\ diff' = dInflight[i].answers[1]]_vars

\* a save went through and the view still holds the diff as it was loaded
C2_Witness ==
    /\ tPosts > 0
    /\ tInflight = << >>
    /\ diff # None
    /\ diff[1].state = "pending"
    /\ db.diffs[DiffIndex(diff[1].id)].state = "denied"
    /\ db.diffs[DiffIndex(diff[1].id)].notes # ""

\* every stable id the reasons of a score result cite is in the bundle
RefsResolve(score, bundle) ==
    \A i \in 1..Len(score.reasons) :
        \A e \in score.reasons[i].evidence_refs : e.stable_id \in BundleIds(bundle)

\* C3: every stable_id cited by a reason of a score result resolves in the
\* evidence bundle of the same diff, in the store and in the diff detail view.
C3_NoDanglingCitations ==
    /\ \A i \in 1..Len(db.diffs) :
          db.diffs[i].score_result # NoScore =>
              RefsResolve(db.diffs[i].score_result, db.diffs[i].evidence_bundle)
    /\ (diff # None /\ diff[1].score_result # None) =>
          RefsResolve(diff[1].score_result[1], diff[1].evidence_bundle)

\* the view shows the second diff, scored, with a reason that cites a hunk
C3_Witness ==
    /\ dMounted
    /\ diff # None
    /\ diff[1].id = "2"
    /\ diff[1].score_result # None
    /\ \E i \in 1..Len(diff[1].score_result[1].reasons) :
          \E e \in diff[1].score_result[1].reasons[i].evidence_refs : e.ref_type = "hunk"
    /\ Len(db.diffs[1].score_result.reasons) > 0

\* what the view renders: past the three early returns, the reasons of the
\* score of the diff it holds, when there is a score with reasons
ReasonsShown ==
    IF TriageFormShown /\ diff[1].score_result # None
    THEN diff[1].score_result[1].reasons
    ELSE << >>

\* C11: no reason of a score result has an empty evidence_refs list, in the
\* store and among the reasons the diff detail view displays.
C11_NonEmptyReasons ==
    /\ \A i \in 1..Len(db.diffs) :
          \A k \in 1..Len(db.diffs[i].score_result.reasons) :
              db.diffs[i].score_result.reasons[k].evidence_refs # {}
    /\ \A k \in 1..Len(ReasonsShown) : ReasonsShown[k].evidence_refs # {}

\* the view displays two reasons of one diff while the other diff is scored too
C11_Witness ==
    /\ Len(ReasonsShown) >= 2
    /\ Len(db.diffs) = 2
    /\ Len(db.diffs[2].score_result.reasons) > 0

\* if (error) return <p className="error">...: past the loading return, with an
\* error message that is truthy
ErrorViewShown ==
    /\ dMounted
    /\ ~dLoading
    /\ dError # None /\ Truthy(dError[1])

\* a load that was not cancelled settles with a rejection carrying msg
LiveLoadFails(msg) ==
    \E i \in 1..Len(dInflight) : ~dInflight[i].cancelled /\ LoadFailed(i, msg)

\* diff and reports are set together, by one load, for one diff id
SetTogether ==
    /\ (diff = None) <=> (reports = None)
    /\ diff # None => reports[1].diff_id = diff[1].id
    /\ TriageFormShown => (diff # None /\ reports # None)

\* a failed load sets none of diff, reports, triage state and triage notes
FailedLoadSetsNothing ==
    \A msg \in ErrorMessages :
        LiveLoadFails(msg) => UNCHANGED <<diff, reports, triageState, triageNotes>>

\* C12: the view shows bundle, score, reports and triage form only with a diff
\* and reports set together by one successful load; a load one of whose requests
\* fails sets none of diff, reports, triage state and notes, and the error view is
\* shown after it.
C12_LoadAllOrNothing ==
    /\ []SetTogether
    /\ [][FailedLoadSetsNothing]_vars
    /\ [][\A msg \in ErrorMessages : LiveLoadFails(msg) => ErrorViewShown']_vars

\* the same with the error view shown only for a rejection whose message is
\* not empty
LoadAllOrNothingWithMessage ==
    /\ []SetTogether
    /\ [][FailedLoadSetsNothing]_vars
    /\ [][\A msg \in ErrorMessages \ {""} : LiveLoadFails(msg) => ErrorViewShown']_vars

\* a failed load after which the view still shows the triage form
FormShownAfterFailedLoad ==
    /\ TriageFormShown
    /\ dError = Some("")
    /\ diffId # diff[1].id
    /\ dInflight = << >>

----------------------------------------------------------------------------
(* The app: App.tsx renders the view of the route the URL matches, over the *)
(* demo store.  The links change the URL and with it the view.              *)

InitViews == InitQueue /\ InitDetail

\* the URL matches "/"
QueueRoute == qMounted

\* the URL matches "/diff/:diffId"
DetailRoute == dMounted

\* the URL matches neither route (before the app is opened, and after the URL
\* left both routes)
NoRoute == ~qMounted /\ ~dMounted

\* the row of diff id is in the table, with its Detail link
DetailLinkShown(id) == FilterBarShown /\ \E k \in 1..Len(items) : items[k] = id

\* the Detail link of a row: QueueView unmounts and DiffDetailView mounts
OpenDetail(id) ==
    /\ QueueRoute
    /\ DetailLinkShown(id)
    /\ QueueUnmounts
    /\ DetailMounts(id)
    /\ UNCHANGED <<db, mkVars, suVars, strictMode>>

\* back or forward in the history, from "/" to the entry of a detail page that
\* was open before
BackToDetail(id) ==
    /\ QueueRoute
    /\ dMounts > 0
    /\ QueueUnmounts
    /\ DetailMounts(id)
    /\ UNCHANGED <<db, mkVars, suVars, strictMode>>

\* the header's Queue link, or back or forward in the history to "/":
\* DiffDetailView unmounts and QueueView mounts
OpenQueue ==
    /\ DetailRoute
    /\ DetailUnmounts
    /\ QueueMounts
    /\ UNCHANGED <<db, mkVars, suVars, strictMode>>

MaxViewFetches == 3   \* GET /queue requests issued in one run of the whole app

\* the filters are set to one value each here and the CLI creates the second
\* diff; SpecQueue and SpecScores draw them from the full sets
NextViews ==
    \/ NoRoute /\ QueueMount /\ qFetches' <= MaxViewFetches
    \/ NoRoute /\ \E id \in RouteIds : DetailMount(id)
    \/ \E id \in RouteIds : OpenDetail(id)
    \/ \E id \in RouteIds : BackToDetail(id)
    \/ OpenQueue /\ qFetches' <= MaxViewFetches
    \/ SetFilterComponent("syslogd") /\ qFetches' <= MaxViewFetches
    \/ SetFilterState("pending") /\ qFetches' <= MaxViewFetches
    \/ SetFilterMinScore(<<"5">>) /\ qFetches' <= MaxViewFetches
    \/ \E i \in 1..MaxFetches, data \in QueueResponses : QueueResolve(i, data)
    \/ \E i \in 1..MaxFetches, msg \in ErrorMessages : QueueReject(i, msg)
    \/ QueueUnmount
    \/ \E id \in RouteIds : DetailChangeRoute(id)
    \/ DetailUnmount
    \/ \E i \in 1..MaxLoads, k \in 1..2 : ServeGet(i, k)
    \/ \E i \in 1..MaxLoads : LoadResolved(i)
    \/ \E i \in 1..MaxLoads, msg \in ErrorMessages : LoadFailed(i, msg)
    \/ \E v \in TriagePicks : SetTriageState(v)
    \/ \E v \in NotesTexts : SetTriageNotes(v)
    \/ handleSaveTriage
    \/ \E j \in 1..MaxPosts : ServePostTriage(j)
    \/ \E j \in 1..MaxPosts, ok \in BOOLEAN : TriageAnswered(j, ok)
    \/ BackendCli(DiffCmd)

SpecViews == InitViews /\ [][NextViews]_vars

\* the request of run i of the queue effect settles, either way
QueueSettles(i) ==
    \/ \E data \in QueueResponses : QueueResolve(i, data)
    \/ \E msg \in ErrorMessages : QueueReject(i, msg)

\* the load of run i of the detail effect settles, either way
LoadSettles(i) ==
    \/ LoadResolved(i)
    \/ \E msg \in ErrorMessages : LoadFailed(i, msg)

\* run i is not the most recently issued one of a mounted view
QueueSuperseded(i) == ~qMounted \/ qInflight[i].seq # qFetches
LoadSuperseded(i) == ~dMounted \/ dInflight[i].seq # dLoads

\* C13: in both views the answer (success or failure) to a superseded request
\* changes no view state: items, diff, reports, error and loading are written
\* only by the most recently issued request of the mounted view.
C13_SupersededResponsesIgnored ==
    /\ [][\A i \in 1..Len(qInflight) :
             (QueueSuperseded(i) /\ QueueSettles(i)) => UNCHANGED <<items, qError, qLoading>>]_vars
    /\ [][\A i \in 1..Len(dInflight) :
             (LoadSuperseded(i) /\ LoadSettles(i)) =>
                 UNCHANGED <<diff, reports, dError, dLoading, triageState, triageNotes>>]_vars

\* the route went from one diff to the other before the first load settled;
\* the first load has settled since, and the view still waits for the second
C13_Witness ==
    /\ ~strictMode
    /\ dMounted /\ dMounts = 1
    /\ dLoads = 2
    /\ Len(dInflight) = 1 /\ dInflight[1].seq = 2
    /\ diff = None /\ reports = None /\ dError = None /\ dLoading

\* the diff whose detail the triage form shows
DiffShown == diff[1].id

\* C14: a triage update for diff id D is sent only from a form that shows D's
\* own detail, with the state and notes loaded from it or edited since; values
\* of the diff shown before a route change are not posted to the new diff id,
\* and no update is sent while the triage state is empty.
C14_TriageValuesBelongToDiff ==
    /\ [][handleSaveTriage =>
             /\ DiffShown = tInflight'[Len(tInflight')].request.path[2]
             /\ Truthy(triageState)]_vars
    /\ [](\A j \in 1..Len(tInflight) : Truthy(tInflight[j].request.body.state))

\* no update is sent with an empty triage state, and none from a view that
\* holds no diff
NoUpdateWithEmptyState ==
    /\ [][handleSaveTriage => (diff # None /\ Truthy(triageState))]_vars
    /\ [](\A j \in 1..Len(tInflight) : Truthy(tInflight[j].request.body.state))

\* the state and notes set in the form of the first diff are stored on the
\* second, while the view still shows the first
TriageOfFirstDiffOnSecond ==
    /\ dMounted /\ diffId = "2"
    /\ diff # None /\ DiffShown = "1"
    /\ Len(db.diffs) = 2
    /\ db.diffs[1].state = "pending" /\ db.diffs[1].notes = ""
    /\ db.diffs[2].state = "denied" /\ db.diffs[2].notes = "looked at it"

----------------------------------------------------------------------------
(* Loading and error in the two views                                       *)

\* QueueView: if (error) return <p className="error">..., past the loading return
QueueErrorShown ==
    /\ qMounted
    /\ ~qLoading
    /\ qError # None /\ Truthy(qError[1])

\* the settlement of a request that is the latest of the mounted view
LiveQueueSettles == \E i \in 1..Len(qInflight) : ~QueueSuperseded(i) /\ QueueSettles(i)
LiveLoadSettles == \E i \in 1..Len(dInflight) : ~LoadSuperseded(i) /\ LoadSettles(i)

\* loading is true on mount, false once the latest request settles, and is not
\* set to true again while the view stays mounted
LoadingOnce ==
    /\ [][(QueueMounts => qLoading') /\ (\A id \in RouteIds : DetailMounts(id) => dLoading')]_vars
    /\ [][(LiveQueueSettles => ~qLoading') /\ (LiveLoadSettles => ~dLoading')]_vars
    /\ [][((qMounted /\ qMounted' /\ ~qLoading) => ~qLoading')
          /\ ((dMounted /\ dMounted' /\ ~dLoading) => ~dLoading')]_vars

\* once set, error is not set back to null while the view stays mounted
ErrorNeverCleared ==
    [][((qMounted /\ qMounted' /\ qError # None) => qError' # None)
       /\ ((dMounted /\ dMounted' /\ dError # None) => dError' # None)]_vars

\* from the queue view's error state no request is issued
NoRequestFromQueueError ==
    [][(QueueErrorShown /\ qMounted') => (qFetches' = qFetches /\ ~HasLive)]_vars

\* C15: in both views loading is true on mount, false once the latest request
\* has settled and never true again; once a request that was not superseded has
\* failed, error is never cleared and the error view is shown from then on, also
\* after a later successful load; the queue view issues no request from its
\* error state.
C15_LoadingOnceErrorAbsorbing ==
    /\ LoadingOnce
    /\ ErrorNeverCleared
    /\ []((qMounted /\ qError # None) => QueueErrorShown)
    /\ []((dMounted /\ dError # None) => ErrorViewShown)
    /\ NoRequestFromQueueError

\* the same, with the error view shown for the messages that are not empty:
\* it stays shown unless a later failure brings an empty message
LoadingOnceErrorKept ==
    /\ LoadingOnce
    /\ ErrorNeverCleared
    /\ []((qMounted /\ qError # None /\ Truthy(qError[1])) => QueueErrorShown)
    /\ []((dMounted /\ dError # None /\ Truthy(dError[1])) => ErrorViewShown)
    /\ [][(QueueErrorShown /\ qMounted') => QueueErrorShown']_vars
    /\ [][(ErrorViewShown /\ dMounted' /\ dError' # Some("")) => ErrorViewShown']_vars
    /\ NoRequestFromQueueError

\* the error view of the detail view stays shown after a later load succeeded
ErrorShownOverLoadedDiff ==
    /\ ErrorViewShown
    /\ diff # None
    /\ dInflight = << >>
    /\ DiffShown = diffId

\* the queue view shows its filter bar after its latest request failed
FilterBarAfterFailure ==
    /\ FilterBarShown
    /\ qError = Some("")

\* the detail view's error view went away: a later failure had no message
ErrorViewGone ==
    /\ dMounted /\ ~dLoading
    /\ dError = Some("")
    /\ dLoads = 2 /\ ~strictMode /\ dMounts = 1
    /\ dInflight = << >>

====
